---- MODULE Spec2Model ----
(***************************************************************************)
(* Model of the monkey-rs front end: the Lexer (src/src/lexer.rs) and the  *)
(* Parser (src/src/parser.rs) over the AST of src/src/ast.rs.              *)
(*                                                                         *)
(* A source text is a sequence of characters; a character is a string.     *)
(* read_position is 0-based as in the code, so the character under the     *)
(* cursor is input[read_position + 1].                                     *)
(***************************************************************************)
EXTENDS Integers, Sequences, FiniteSets, TLC

VARIABLES stdin, input, read_position, ch, out, curr_token, peek_token, identifier, prog, pc

vars == <<stdin, input, read_position, ch, out, curr_token, peek_token, identifier, prog, pc>>

lexer_vars == <<input, read_position, ch>>

parser_vars == <<curr_token, peek_token, identifier, prog>>

(***************************************************************************)
(* Bounds of the model.                                                    *)
(***************************************************************************)
\* longest lexer input, in fragments of LexFrags
MaxFrags == 3

\* number of calls of next() the lexer's caller makes
MaxCalls == 6

\* longest parser input, in pieces of ParsePieces
MaxStmts == 2

\* most lines on standard input before its end
MaxLines == 2

(***************************************************************************)
(* Characters.                                                             *)
(***************************************************************************)
AsciiLetters ==
    {"a", "b", "c", "d", "e", "f", "g", "h", "i", "j", "k", "l", "m",
     "n", "o", "p", "q", "r", "s", "t", "u", "v", "w", "x", "y", "z",
     "A", "B", "C", "D", "E", "F", "G", "H", "I", "J", "K", "L", "M",
     "N", "O", "P", "Q", "R", "S", "T", "U", "V", "W", "X", "Y", "Z"}

AsciiDigits == {"0", "1", "2", "3", "4", "5", "6", "7", "8", "9"}

\* ARABIC-INDIC DIGIT THREE: char::is_numeric is true of it, and it takes
\* two bytes in UTF-8
ArabicThree == "U+0663"

NonAsciiNumeric == {ArabicThree}

\* the number of bytes of a character in a String
len_utf8(c) == IF c \in NonAsciiNumeric THEN 2 ELSE 1

\* Option<char>::None
NoChar == "None"

(***************************************************************************)
(* Tokens.  arg holds the String of Identifier and Literal and the         *)
(* LimiterToken of Limiter.                                                *)
(***************************************************************************)
Tok(t) == [type |-> t, arg |-> <<>>]

Identifier(s) == [type |-> "Identifier", arg |-> s]

Literal(s) == [type |-> "Literal", arg |-> s]

Limiter(k) == [type |-> "Limiter", arg |-> <<k>>]

\* Option<Token>::None
NoToken == Tok("None")

Semicolon == Limiter("Semicolon")

\* String::len: the length in bytes
RECURSIVE StringLen(_)
StringLen(s) == IF s = <<>> THEN 0 ELSE len_utf8(Head(s)) + StringLen(Tail(s))

TokenLen(token) ==
    CASE token.type \in {"Illegal", "Eof"} -> 0
      [] token.type \in {"Identifier", "Literal"} -> StringLen(token.arg)
      [] token.type \in {"Limiter", "Assign", "Plus", "Minus", "Bang",
                         "Asterisk", "Slash", "LT", "GT"} -> 1
      [] token.type \in {"Function", "If", "EQ", "NotEq"} -> 2
      [] token.type = "Let" -> 3
      [] token.type \in {"True", "Else"} -> 4
      [] token.type = "False" -> 5
      [] token.type = "Return" -> 6

is_letter(c) == c \in AsciiLetters \/ c = "_"

is_digit(c) == c \in AsciiDigits \/ c \in NonAsciiNumeric

\* is_whitespace without the tab
is_whitespace_NoTab(c) == c = " " \/ c = "\n" \/ c = "\r"

is_whitespace(c) == c = " " \/ c = "\t" \/ c = "\n" \/ c = "\r"

look_up_identifier(ident) ==
    CASE ident = <<"f", "n">> -> Tok("Function")
      [] ident = <<"l", "e", "t">> -> Tok("Let")
      [] ident = <<"t", "r", "u", "e">> -> Tok("True")
      [] ident = <<"f", "a", "l", "s", "e">> -> Tok("False")
      [] ident = <<"i", "f">> -> Tok("If")
      [] ident = <<"e", "l", "s", "e">> -> Tok("Else")
      [] ident = <<"r", "e", "t", "u", "r", "n">> -> Tok("Return")
      [] OTHER -> Identifier(ident)

(***************************************************************************)
(* The Lexer's helpers, as functions of the Lexer's fields.                *)
(***************************************************************************)
\* self.input.chars().nth(n)
CharsNth(s, n) == IF n < Len(s) THEN s[n + 1] ELSE NoChar

\* peek_char_head reading the character under the cursor instead of the
\* one after it
peek_char_head_AtCursor(s, pos) == CharsNth(s, pos)

peek_char_head(s, pos) == CharsNth(s, pos + 1)

\* read_identifier letting digits continue the run
read_identifier_WithDigits(s, pos) ==
    SubSeq(s, pos + 1,
           pos + Cardinality({k \in 1..(Len(s) - pos) :
                                 \A i \in 1..k : is_letter(s[pos + i])
                                                     \/ is_digit(s[pos + i])}))

\* chars().skip(pos).take_while(is_letter).collect(): the run is as long as
\* there are k such that the k characters from pos on are all letters
read_identifier(s, pos) ==
    SubSeq(s, pos + 1,
           pos + Cardinality({k \in 1..(Len(s) - pos) :
                                 \A i \in 1..k : is_letter(s[pos + i])}))

read_number(s, pos) ==
    SubSeq(s, pos + 1,
           pos + Cardinality({k \in 1..(Len(s) - pos) :
                                 \A i \in 1..k : is_digit(s[pos + i])}))

\* the Lexer's cursor after skip_white_spaces: ch is re-read only when
\* spaces were skipped
skip_white_spaces(s, pos, c) ==
    LET spaces == Cardinality({k \in 1..(Len(s) - pos) :
                                  \A i \in 1..k : is_whitespace(s[pos + i])})
    IN  IF spaces > 0
        THEN [read_position |-> pos + spaces, ch |-> CharsNth(s, pos + spaces)]
        ELSE [read_position |-> pos, ch |-> c]

\* the token the match of Lexer::next builds for the current character
Classify(s, pos, c) ==
    CASE c = NoChar -> Tok("Eof")
      [] c = "," -> Limiter("Comma")
      [] c = ";" -> Limiter("Semicolon")
      [] c = "(" -> Limiter("LParen")
      [] c = ")" -> Limiter("RParen")
      [] c = "{" -> Limiter("LBrace")
      [] c = "}" -> Limiter("RBrace")
      [] c = "+" -> Tok("Plus")
      [] c = "-" -> Tok("Minus")
      [] c = "=" -> IF peek_char_head(s, pos) = "=" THEN Tok("EQ") ELSE Tok("Assign")
      [] c = "!" -> IF peek_char_head(s, pos) = "=" THEN Tok("NotEq") ELSE Tok("Bang")
      [] c = "*" -> Tok("Asterisk")
      [] c = "/" -> Tok("Slash")
      [] c = "<" -> Tok("LT")
      [] c = ">" -> Tok("GT")
      [] OTHER -> IF is_letter(c) THEN look_up_identifier(read_identifier(s, pos))
                  ELSE IF is_digit(c) THEN Literal(read_number(s, pos))
                  ELSE Tok("Illegal")

\* Lexer::next without the early return for Eof: Eof is yielded as a token
Emit_YieldingEof(s, pos, c, token) ==
    [token |-> token,
     read_position |-> pos + TokenLen(token),
     ch |-> CharsNth(s, pos + TokenLen(token))]

\* Lexer::next returning None for Eof only after the cursor was moved on
Emit_SteppingAtEof(s, pos, c, token) ==
    IF token = Tok("Eof")
    THEN [token |-> NoToken, read_position |-> pos + 1, ch |-> CharsNth(s, pos + 1)]
    ELSE [token |-> token,
          read_position |-> pos + TokenLen(token),
          ch |-> CharsNth(s, pos + TokenLen(token))]

\* the end of Lexer::next: None for Eof, else the cursor moves by the
\* token's len and the character under it is read
Emit(s, pos, c, token) ==
    IF token = Tok("Eof")
    THEN [token |-> NoToken, read_position |-> pos, ch |-> c]
    ELSE [token |-> token,
          read_position |-> pos + TokenLen(token),
          ch |-> CharsNth(s, pos + TokenLen(token))]

\* Lexer::next after skip_white_spaces left the cursor at pos on c
Scan(s, pos, c) ==
    CHOOSE r \in {Emit(s, pos, c, token) : token \in {Classify(s, pos, c)}} : TRUE

\* Lexer::next: the Option<Token> it returns and the fields it leaves
LexerNext(s, pos, c) ==
    CHOOSE r \in {Scan(s, sk.read_position, sk.ch) :
                      sk \in {skip_white_spaces(s, pos, c)}} : TRUE

(***************************************************************************)
(* The AST (src/src/ast.rs).                                               *)
(***************************************************************************)
\* Expression::Identifier(Token)
ExpressionIdentifier(token) == <<"Identifier", token>>

\* Option<Expression>::None
NoExpression == <<"None", NoToken>>

StatementLet(name, value) == <<"Let", name, value>>

StatementReturn(value) == <<"Return", value>>

StatementExpression(e) == <<"Expression", e>>

\* Program::new()
ProgramNew == [statements |-> <<>>]

\* the placeholder both statement parsers put in the value slot
Fixme == ExpressionIdentifier(Tok("Assign"))

(***************************************************************************)
(* Source texts.                                                           *)
(***************************************************************************)
RECURSIVE Flatten(_)
Flatten(ss) == IF ss = <<>> THEN <<>> ELSE Head(ss) \o Flatten(Tail(ss))

SeqsUpTo(S, n) == UNION {[1..k -> S] : k \in 0..n}

KwFn == <<"f", "n">>
KwLet == <<"l", "e", "t">>
KwTrue == <<"t", "r", "u", "e">>
KwFalse == <<"f", "a", "l", "s", "e">>
KwIf == <<"i", "f">>
KwElse == <<"e", "l", "s", "e">>
KwReturn == <<"r", "e", "t", "u", "r", "n">>

Keywords == {KwFn, KwLet, KwTrue, KwFalse, KwIf, KwElse, KwReturn}

\* the fragments the lexer's inputs are made of
LexFrags ==
    Keywords \cup
    {<<"x">>, <<"_">>, <<"5">>, <<"=">>, <<"!">>, <<"@">>, <<";">>,
     <<" ">>, <<"\t">>, <<"\n">>, <<"\r">>, <<ArabicThree>>}

LexInputs == {Flatten(f) : f \in SeqsUpTo(LexFrags, MaxFrags)}

\* names and value expressions of the statements the parser is given
Names == {<<"x">>, <<"f", "o", "o">>}

FnLiteral == <<"f", "n", "(", ")", "{", "a", ";", "b", ";", "}">>

Exprs == {<<"5">>, <<"y">>, FnLiteral}

LetText(n, e) == KwLet \o <<" ">> \o n \o <<" ", "=", " ">> \o e \o <<";">>

ReturnText(e) == KwReturn \o <<" ">> \o e \o <<";">>

IdentText(n) == n \o <<";">>

LetTexts == {LetText(n, e) : n \in Names, e \in Exprs}

ReturnTexts == {ReturnText(e) : e \in Exprs}

IdentTexts == {IdentText(n) : n \in Names \cup {<<"l", "e", "t", "s">>}}

\* statements with a part missing, and characters of no rule
BrokenTexts ==
    {KwLet \o <<" ", "=", " ", "5", ";">>,
     KwLet \o <<" ", "x", " ", "5", ";">>,
     KwLet \o <<" ", "x", " ", "=", " ", "5">>,
     KwLet \o <<" ", "x">>,
     KwReturn \o <<" ", "5">>,
     <<"5", ";">>,
     <<"@">>,
     <<" ">>,
     KwLet \o <<" ", "=", " ", "x", ";">>}

\* a + b * c
ProductInSum == <<"a", " ", "+", " ", "b", " ", "*", " ", "c">>

\* a + b + c
SumInSum == <<"a", " ", "+", " ", "b", " ", "+", " ", "c">>

InfixTexts == {ProductInSum, SumInSum}

ParsePieces ==
    LetTexts \cup ReturnTexts \cup IdentTexts \cup BrokenTexts \cup InfixTexts

ParseInputs == {Flatten(f) : f \in SeqsUpTo(ParsePieces, MaxStmts)}

(***************************************************************************)
(* The lexer driven by a caller that iterates it (lexer.rs:304, repl.rs:20)*)
(* and collects what next() returns, the None results included.            *)
(***************************************************************************)
\* Lexer::from(string)
LexerFrom(string) == [read_position |-> 0, ch |-> CharsNth(string, 0)]

LexInit ==
    /\ stdin = <<>>
    /\ input \in LexInputs
    /\ read_position = LexerFrom(input).read_position
    /\ ch = LexerFrom(input).ch
    /\ out = <<>>
    /\ curr_token = NoToken
    /\ peek_token = NoToken
    /\ identifier = NoExpression
    /\ prog = ProgramNew
    /\ pc = "lex"

\* one call of next() by the caller
Iterate ==
    /\ pc = "lex"
    /\ Len(out) < MaxCalls
    /\ \E r \in {LexerNext(input, read_position, ch)} :
           /\ read_position' = r.read_position
           /\ ch' = r.ch
           /\ out' = Append(out, r.token)
    /\ UNCHANGED <<stdin, input, parser_vars, pc>>

LexNext == Iterate

LexSpec == LexInit /\ [][LexNext]_vars

(***************************************************************************)
(* The parser (src/src/parser.rs).  pc is the place of control inside      *)
(* parse_program: "new" before Parser::new, "parse_program" at the head of *)
(* its while loop, "let_loop" and "return_loop" at the heads of the loops  *)
(* of parse_let_statement and parse_return_statement, "panic" after a      *)
(* failed assert_eq!, "done" after parse_program returned.                 *)
(***************************************************************************)
ParseInit ==
    /\ stdin = <<>>
    /\ input \in ParseInputs
    /\ read_position = LexerFrom(input).read_position
    /\ ch = LexerFrom(input).ch
    /\ out = <<>>
    /\ curr_token = NoToken
    /\ peek_token = NoToken
    /\ identifier = NoExpression
    /\ prog = ProgramNew
    /\ pc = "new"

\* the fields of the Parser and of the Lexer it owns
Self == [curr_token |-> curr_token, peek_token |-> peek_token,
         read_position |-> read_position, ch |-> ch]

\* next_token pulling the new lookahead into both slots
next_token_DroppingPeek(self) ==
    LET r == LexerNext(input, self.read_position, self.ch)
    IN  [curr_token |-> r.token, peek_token |-> r.token,
         read_position |-> r.read_position, ch |-> r.ch]

\* Parser::next_token
next_token(self) ==
    LET r == LexerNext(input, self.read_position, self.ch)
    IN  [curr_token |-> self.peek_token, peek_token |-> r.token,
         read_position |-> r.read_position, ch |-> r.ch]

curr_token_is(self, other) == self.curr_token # NoToken /\ self.curr_token = other

\* the write-back of the fields an operation leaves
Becomes(self) ==
    /\ curr_token' = self.curr_token
    /\ peek_token' = self.peek_token
    /\ read_position' = self.read_position
    /\ ch' = self.ch

\* prefix_parsing_fn with no rule for Identifier
prefix_parsing_fn_NoRule(token) == NoExpression

prefix_parsing_fn(token) ==
    IF token.type = "Identifier"
    THEN ExpressionIdentifier(Identifier(token.arg))
    ELSE NoExpression

parse_expression(self) ==
    IF self.curr_token = NoToken THEN NoExpression
    ELSE prefix_parsing_fn(self.curr_token)

\* the statement put in front of the sequence instead of behind it
Push_Front(p, e, s) == IF e = NoExpression THEN p
                       ELSE [p EXCEPT !.statements = <<s>> \o @]

\* prog.statements.push(s) when parse_statement returned Some(s)
Push(p, e, s) == IF e = NoExpression THEN p
                 ELSE [p EXCEPT !.statements = Append(@, s)]

\* Parser::new
ParserNew ==
    /\ pc = "new"
    /\ \E s1 \in {next_token(Self)} :
           \E s2 \in {next_token(s1)} : Becomes(s2)
    /\ pc' = "parse_program"
    /\ UNCHANGED <<stdin, input, out, identifier, prog>>

\* parse_program: the loop condition fails and the Program is returned
ParseProgramReturn ==
    /\ pc = "parse_program"
    /\ curr_token = NoToken
    /\ pc' = "done"
    /\ UNCHANGED <<stdin, lexer_vars, out, parser_vars>>

\* parse_let_statement returns None: no statement is pushed, and
\* parse_program advances
ParseLetStatementNone ==
    /\ pc = "parse_program"
    /\ curr_token = Tok("Let")
    /\ peek_token.type # "Identifier"
    /\ \E s1 \in {next_token(Self)} : Becomes(s1)
    /\ UNCHANGED <<stdin, input, out, identifier, prog, pc>>

\* parse_let_statement up to its loop, expect_peek passing
ParseLetStatement ==
    /\ pc = "parse_program"
    /\ curr_token = Tok("Let")
    /\ peek_token.type = "Identifier"
    /\ \E s1 \in {next_token(Self)} :
           /\ s1.peek_token \in {NoToken, Tok("Assign")}
           /\ \E s2 \in {IF s1.peek_token = NoToken THEN s1 ELSE next_token(s1)} :
                  Becomes(s2)
    /\ identifier' = ExpressionIdentifier(Identifier(peek_token.arg))
    /\ pc' = "let_loop"
    /\ UNCHANGED <<stdin, input, out, prog>>

\* parse_let_statement, the assert_eq! of expect_peek failing
ExpectPeekPanic ==
    /\ pc = "parse_program"
    /\ curr_token = Tok("Let")
    /\ peek_token.type = "Identifier"
    /\ \E s1 \in {next_token(Self)} :
           /\ s1.peek_token \notin {NoToken, Tok("Assign")}
           /\ Becomes(s1)
    /\ identifier' = ExpressionIdentifier(Identifier(peek_token.arg))
    /\ pc' = "panic"
    /\ UNCHANGED <<stdin, input, out, prog>>

\* one turn of the loop of parse_let_statement
LetLoop ==
    /\ pc = "let_loop"
    /\ ~curr_token_is(Self, Semicolon)
    /\ \E s1 \in {next_token(Self)} : Becomes(s1)
    /\ UNCHANGED <<stdin, input, out, identifier, prog, pc>>

\* parse_let_statement returns the Let; parse_program pushes it and advances
LetReturn ==
    /\ pc = "let_loop"
    /\ curr_token_is(Self, Semicolon)
    /\ prog' = Push(prog, identifier, StatementLet(identifier, Fixme))
    /\ \E s1 \in {next_token(Self)} : Becomes(s1)
    /\ pc' = "parse_program"
    /\ UNCHANGED <<stdin, input, out, identifier>>

\* parse_statement dispatches to parse_return_statement
ParseReturnStatement ==
    /\ pc = "parse_program"
    /\ curr_token = Tok("Return")
    /\ pc' = "return_loop"
    /\ UNCHANGED <<stdin, lexer_vars, out, parser_vars>>

\* one turn of the loop of parse_return_statement
ReturnLoop ==
    /\ pc = "return_loop"
    /\ ~curr_token_is(Self, Semicolon)
    /\ \E s1 \in {next_token(Self)} : Becomes(s1)
    /\ UNCHANGED <<stdin, input, out, identifier, prog, pc>>

\* parse_return_statement returns; parse_program pushes and advances
ReturnReturn ==
    /\ pc = "return_loop"
    /\ curr_token_is(Self, Semicolon)
    /\ prog' = Push(prog, Fixme, StatementReturn(Fixme))
    /\ \E s1 \in {next_token(Self)} : Becomes(s1)
    /\ pc' = "parse_program"
    /\ UNCHANGED <<stdin, input, out, identifier>>

\* parse_expression_statement; parse_program pushes a Some and advances
ParseExpressionStatement ==
    /\ pc = "parse_program"
    /\ curr_token \notin {NoToken, Tok("Let"), Tok("Return")}
    /\ \E express \in {parse_expression(Self)} :
           prog' = Push(prog, express, StatementExpression(express))
    /\ \E s1 \in {next_token(Self)} : Becomes(s1)
    /\ UNCHANGED <<stdin, input, out, identifier, pc>>

ParseNext ==
    \/ ParserNew
    \/ ParseProgramReturn
    \/ ParseLetStatementNone
    \/ ParseLetStatement
    \/ ExpectPeekPanic
    \/ LetLoop
    \/ LetReturn
    \/ ParseReturnStatement
    \/ ReturnLoop
    \/ ReturnReturn
    \/ ParseExpressionStatement

ParseSpec == ParseInit /\ [][ParseNext]_vars

\* the program runs on while it can: a loop that can turn turns
ParseFairSpec == ParseSpec /\ WF_vars(ParseNext)

(***************************************************************************)
(* The read loop (src/src/repl.rs).  stdin is what standard input still    *)
(* holds: lines, and ReadErr where read_line fails; behind its last item   *)
(* is the end of standard input, where read_line returns Ok(0) and leaves  *)
(* the String empty.  out is what was printed for the current line.  pc is *)
(* "prompt" before read_line, "print" while the line's Lexer is iterated,  *)
(* "returned" after start returned.                                        *)
(***************************************************************************)
\* a read_line that returns Err
ReadErr == <<"io::Error">>

ReplItems ==
    {<<"x", " ", "=", "=", "\n">>,
     <<" ", "l", "e", "t", "\t", "\r", "\n">>,
     <<"\n">>,
     <<"@", "\n">>,
     ReadErr}

ReplInputs == SeqsUpTo(ReplItems, MaxLines)

\* str::trim
Trim(s) ==
    LET keep == {i \in 1..Len(s) : s[i] \notin {" ", "\t", "\n", "\r"}}
    IN  IF keep = {} THEN <<>>
        ELSE SubSeq(s, CHOOSE i \in keep : \A j \in keep : i <= j,
                       CHOOSE i \in keep : \A j \in keep : i >= j)

ReplInit ==
    /\ stdin \in ReplInputs
    /\ input = <<>>
    /\ read_position = 0
    /\ ch = NoChar
    /\ out = <<>>
    /\ curr_token = NoToken
    /\ peek_token = NoToken
    /\ identifier = NoExpression
    /\ prog = ProgramNew
    /\ pc = "prompt"

\* read_line returns Ok with a line: a Lexer is made from the trimmed line
ReadLine ==
    /\ pc = "prompt"
    /\ stdin # <<>>
    /\ Head(stdin) # ReadErr
    /\ \E line \in {Trim(Head(stdin))} :
           /\ input' = line
           /\ read_position' = LexerFrom(line).read_position
           /\ ch' = LexerFrom(line).ch
    /\ stdin' = Tail(stdin)
    /\ out' = <<>>
    /\ pc' = "print"
    /\ UNCHANGED parser_vars

\* read_line returns Ok(0) at the end of standard input: a Lexer is made
\* from the empty String
ReadLineAtEof ==
    /\ pc = "prompt"
    /\ stdin = <<>>
    /\ input' = <<>>
    /\ read_position' = LexerFrom(<<>>).read_position
    /\ ch' = LexerFrom(<<>>).ch
    /\ out' = <<>>
    /\ pc' = "print"
    /\ UNCHANGED <<stdin, parser_vars>>

\* read_line returns Err: start returns Ok(())
ReadLineErr ==
    /\ pc = "prompt"
    /\ stdin # <<>>
    /\ Head(stdin) = ReadErr
    /\ stdin' = Tail(stdin)
    /\ pc' = "returned"
    /\ UNCHANGED <<lexer_vars, out, parser_vars>>

\* the iteration of the line's Lexer yields a token, which is printed
PrintToken ==
    /\ pc = "print"
    /\ Len(out) < MaxCalls
    /\ \E r \in {LexerNext(input, read_position, ch)} :
           /\ r.token # NoToken
           /\ read_position' = r.read_position
           /\ ch' = r.ch
           /\ out' = Append(out, r.token)
    /\ UNCHANGED <<stdin, input, parser_vars, pc>>

\* the iteration of the line's Lexer ends: the loop goes round
PrintDone ==
    /\ pc = "print"
    /\ \E r \in {LexerNext(input, read_position, ch)} :
           /\ r.token = NoToken
           /\ read_position' = r.read_position
           /\ ch' = r.ch
    /\ pc' = "prompt"
    /\ UNCHANGED <<stdin, input, out, parser_vars>>

ReplNext ==
    \/ ReadLine
    \/ ReadLineAtEof
    \/ ReadLineErr
    \/ PrintToken
    \/ PrintDone

ReplSpec == ReplInit /\ [][ReplNext]_vars

(***************************************************************************)
(* Properties of the lexer, checked under LexSpec.                         *)
(***************************************************************************)
Last(s) == s[Len(s)]

\* the cursor of the character a call of next() classifies: the first
\* character at or after pos that is not whitespace
StartOf(s, pos) ==
    IF \E i \in (pos + 1)..Len(s) : s[i] \notin {" ", "\t", "\n", "\r"}
    THEN (CHOOSE i \in (pos + 1)..Len(s) :
              /\ s[i] \notin {" ", "\t", "\n", "\r"}
              /\ \A j \in (pos + 1)..(i - 1) : s[j] \in {" ", "\t", "\n", "\r"}) - 1
    ELSE IF pos > Len(s) THEN pos ELSE Len(s)

\* the character at cursor p, "None" past the end
CharAt(s, p) == IF p < Len(s) THEN s[p + 1] ELSE "None"

\* the caller has just made a call of next()
Called == out' # out

C3_IllegalAdvances ==
    [][(Called /\ Last(out') = Tok("Illegal")) =>
           read_position' = StartOf(input, read_position) + 1]_vars

\* C9: a call of next() whose current character is `=` yields EQ and moves
\* the cursor by two when the character after it is `=`, and yields Assign and
\* moves the cursor by one otherwise; likewise `!` yields NotEq before `=` and
\* Bang otherwise.
C9_OperatorLookahead ==
    [][Called =>
        LET p == StartOf(input, read_position)
            c == CharAt(input, p)
            d == CharAt(input, p + 1)
        IN  /\ (c = "=" /\ d = "=") =>
                  (Last(out') = Tok("EQ") /\ read_position' = p + 2)
            /\ (c = "=" /\ d # "=") =>
                  (Last(out') = Tok("Assign") /\ read_position' = p + 1)
            /\ (c = "!" /\ d = "=") =>
                  (Last(out') = Tok("NotEq") /\ read_position' = p + 2)
            /\ (c = "!" /\ d # "=") =>
                  (Last(out') = Tok("Bang") /\ read_position' = p + 1)]_vars

\* `!==` was lexed as NotEq, Assign: the second `=` was left to the next call
C9_Witness ==
    /\ input = <<"!", "=", "=">>
    /\ out = <<Tok("NotEq"), Tok("Assign")>>
    /\ read_position = 3

\* the token of a run of letters and underscores
WordToken(w) ==
    IF w = KwFn THEN Tok("Function")
    ELSE IF w = KwLet THEN Tok("Let")
    ELSE IF w = KwTrue THEN Tok("True")
    ELSE IF w = KwFalse THEN Tok("False")
    ELSE IF w = KwIf THEN Tok("If")
    ELSE IF w = KwElse THEN Tok("Else")
    ELSE IF w = KwReturn THEN Tok("Return")
    ELSE Identifier(w)

IsWordChar(c) == c \in AsciiLetters \cup {"_"}

\* C10: a call of next() whose current character is an ASCII letter or an
\* underscore yields the token of the maximal run of letters and underscores
\* that starts there (the keyword if the run is one, else the Identifier of
\* the run), and leaves the cursor right after the run.
C10_MaximalRun ==
    [][Called =>
        LET p == StartOf(input, read_position)
        IN  IsWordChar(CharAt(input, p)) =>
              \E k \in 1..(Len(input) - p) :
                  /\ \A i \in 1..k : IsWordChar(input[p + i])
                  /\ ~IsWordChar(CharAt(input, p + k))
                  /\ Last(out') = WordToken(SubSeq(input, p + 1, p + k))
                  /\ read_position' = p + k]_vars

\* `letx5` was lexed as the one Identifier letx and then the Literal 5
C10_Witness ==
    /\ input = <<"l", "e", "t", "x", "5">>
    /\ out = <<Identifier(<<"l", "e", "t", "x">>), Literal(<<"5">>)>>
    /\ read_position = 5

\* C12: a call of next() yields a Literal exactly when the character under
\* the cursor is one of 0-9, and the Literal holds the maximal run of the
\* characters 0-9 that starts there.
C12_DecimalLiteral ==
    [][Called =>
        LET p == StartOf(input, read_position)
            c == CharAt(input, p)
        IN  /\ Last(out').type = "Literal" <=> c \in AsciiDigits
            /\ Last(out').type = "Literal" =>
                  \E k \in 1..(Len(input) - p) :
                      /\ \A i \in 1..k : input[p + i] \in AsciiDigits
                      /\ CharAt(input, p + k) \notin AsciiDigits
                      /\ Last(out').arg = SubSeq(input, p + 1, p + k)]_vars

\* the input is made of whitespace characters only
OnlyWhitespace(s) == \A i \in 1..Len(s) : s[i] \in {" ", "\t", "\n", "\r"}

Spelling(token, c) ==
    CASE token.type \in {"Identifier", "Literal"} -> token.arg
      [] token.type = "Illegal" -> <<c>>
      [] token = Limiter("Comma") -> <<",">>
      [] token = Limiter("Semicolon") -> <<";">>
      [] token = Limiter("LParen") -> <<"(">>
      [] token = Limiter("RParen") -> <<")">>
      [] token = Limiter("LBrace") -> <<"{">>
      [] token = Limiter("RBrace") -> <<"}">>
      [] token.type = "Assign" -> <<"=">>
      [] token.type = "Plus" -> <<"+">>
      [] token.type = "Minus" -> <<"-">>
      [] token.type = "Bang" -> <<"!">>
      [] token.type = "Asterisk" -> <<"*">>
      [] token.type = "Slash" -> <<"/">>
      [] token.type = "LT" -> <<"<">>
      [] token.type = "GT" -> <<">">>
      [] token.type = "EQ" -> <<"=", "=">>
      [] token.type = "NotEq" -> <<"!", "=">>
      [] token.type = "Function" -> KwFn
      [] token.type = "Let" -> KwLet
      [] token.type = "True" -> KwTrue
      [] token.type = "False" -> KwFalse
      [] token.type = "If" -> KwIf
      [] token.type = "Else" -> KwElse
      [] token.type = "Return" -> KwReturn

\* C15: a call of next() that yields a token moves the cursor by the number
\* of source characters the token spans, which is at least 1: the characters
\* between the cursor the call started at and the cursor it leaves are the
\* token's own.
C15_CursorBySpan ==
    [][(Called /\ Last(out') # NoToken) =>
        LET p == StartOf(input, read_position)
        IN  /\ read_position' >= p + 1
            /\ read_position' <= Len(input)
            /\ SubSeq(input, p + 1, read_position')
                   = Spelling(Last(out'), CharAt(input, p))]_vars

\* C20: a call of next() made after a call that returned no token returns no
\* token and leaves read_position and ch as they were.
C20_ExhaustionStable ==
    [][(Called /\ out # <<>> /\ Last(out) = NoToken) =>
           /\ Last(out') = NoToken
           /\ read_position' = read_position
           /\ ch' = ch]_vars

\* `x ` was lexed to its end and next() was called twice more
C20_Witness ==
    /\ input = <<"x", " ">>
    /\ out = <<Identifier(<<"x">>), NoToken, NoToken, NoToken>>
    /\ read_position = 2
    /\ ch = NoChar

(***************************************************************************)
(* Properties of the parser, checked under ParseSpec and ParseFairSpec.    *)
(***************************************************************************)
\* no character of the input is one the lexer has no rule for
NoIllegal == \A i \in 1..Len(input) : input[i] # "@"

\* C2: Parser::new followed by parse_program comes to an end, also on inputs
\* whose `let` or `return` has no semicolon (stated for the inputs without
\* a character of no rule).
C2_Terminates == NoIllegal => <>(pc \in {"done", "panic"})

\* C4: parse_program never aborts on the assertion of expect_peek.
C4_NoPanic == pc # "panic"

\* the statement is a Let of the name n
IsLetOf(stmt, n) ==
    /\ stmt[1] = "Let"
    /\ stmt[2] = ExpressionIdentifier(Identifier(n))

\* C5: the Program of `let <ident> = <expr>;` is exactly one Let of <ident>,
\* and the Program of two such statements is their two Lets in source order.
C5_OneLetPerStatement ==
    pc = "done" =>
        /\ \A n \in Names, e \in Exprs :
              input = LetText(n, e) =>
                  /\ Len(prog.statements) = 1
                  /\ IsLetOf(prog.statements[1], n)
        /\ \A n1 \in Names, e1 \in Exprs, n2 \in Names, e2 \in Exprs :
              input = LetText(n1, e1) \o LetText(n2, e2) =>
                  /\ Len(prog.statements) = 2
                  /\ IsLetOf(prog.statements[1], n1)
                  /\ IsLetOf(prog.statements[2], n2)

\* C6: the Program of `return <expr>;` is exactly one Return, and the Program
\* of two such statements is two Returns.
C6_OneReturnPerStatement ==
    pc = "done" =>
        /\ \A e \in Exprs :
              input = ReturnText(e) =>
                  /\ Len(prog.statements) = 1
                  /\ prog.statements[1][1] = "Return"
        /\ \A e1 \in Exprs, e2 \in Exprs :
              input = ReturnText(e1) \o ReturnText(e2) =>
                  /\ Len(prog.statements) = 2
                  /\ prog.statements[1][1] = "Return"
                  /\ prog.statements[2][1] = "Return"

\* n is an identifier name that is not a keyword
IsIdentName(n) ==
    /\ n # <<>>
    /\ \A i \in 1..Len(n) : IsWordChar(n[i])
    /\ n \notin Keywords

\* C7: the Program of `n;`, n an identifier name that is no keyword, is the
\* one Expression statement of the identifier expression named n.
C7_IdentifierStatement ==
    (pc = "done" /\ Len(input) >= 2 /\ Last(input) = ";"
       /\ IsIdentName(SubSeq(input, 1, Len(input) - 1))) =>
        prog.statements =
            <<StatementExpression(ExpressionIdentifier(
                  Identifier(SubSeq(input, 1, Len(input) - 1))))>>

\* `foo;` was parsed to the end
C7_Witness ==
    /\ pc = "done"
    /\ input = <<"f", "o", "o", ";">>
    /\ Len(prog.statements) = 1

\* the input starts with a `let` whose next token is not an identifier
LetWithoutName(s) ==
    LET r1 == LexerNext(s, 0, CharAt(s, 0))
        r2 == LexerNext(s, r1.read_position, r1.ch)
    IN  r1.token = Tok("Let") /\ r2.token.type # "Identifier"

\* C8: the result of parsing an input that starts with a `let` not followed
\* by an identifier carries a diagnostic that is not empty.
C8_Reported ==
    (pc = "done" /\ LetWithoutName(input)) =>
        ("diagnostics" \in DOMAIN prog /\ prog.diagnostics # <<>>)

\* C11: the Program of `a + b * c` is one expression, an addition whose
\* right operand is the multiplication b * c, and the Program of `a + b + c`
\* is one expression, an addition whose left operand is the addition a + b.
\* An infix expression is <<"Infix", left, operator, right>>.
C11_Precedence ==
    pc = "done" =>
        /\ input = ProductInSum =>
              /\ Len(prog.statements) = 1
              /\ prog.statements[1][1] = "Expression"
              /\ prog.statements[1][2][1] = "Infix"
              /\ prog.statements[1][2][3] = Tok("Plus")
              /\ prog.statements[1][2][4][1] = "Infix"
              /\ prog.statements[1][2][4][3] = Tok("Asterisk")
        /\ input = SumInSum =>
              /\ Len(prog.statements) = 1
              /\ prog.statements[1][1] = "Expression"
              /\ prog.statements[1][2][1] = "Infix"
              /\ prog.statements[1][2][3] = Tok("Plus")
              /\ prog.statements[1][2][2][1] = "Infix"
              /\ prog.statements[1][2][2][3] = Tok("Plus")

\* let = x;
LetWithoutNameText == KwLet \o <<" ", "=", " ", "x", ";">>

\* value expressions without a semicolon of their own
PlainExprs == {<<"5">>, <<"y">>}

\* C16: the Program of `let = x;` has no statement, and the Program of
\* `let = x;` followed by a well-formed let has that Let only.
C16_Resynchronizes ==
    pc = "done" =>
        /\ input = LetWithoutNameText => prog.statements = <<>>
        /\ \A n \in Names, e \in PlainExprs :
              input = LetWithoutNameText \o LetText(n, e) =>
                  /\ Len(prog.statements) = 1
                  /\ IsLetOf(prog.statements[1], n)

\* what the first n calls of next() return and leave, from the cursor pos on c
RECURSIVE LexerStream(_, _, _, _)
LexerStream(s, pos, c, n) ==
    IF n = 0 THEN <<>>
    ELSE LET r == LexerNext(s, pos, c)
         IN  <<r>> \o LexerStream(s, r.read_position, r.ch, n - 1)

\* the fields of the Parser and its Lexer changed in this step
Advanced ==
    <<curr_token, peek_token, read_position, ch>>'
        # <<curr_token, peek_token, read_position, ch>>

\* C17: before Parser::new both slots are empty; after it curr_token and
\* peek_token are the first and second token of the Lexer; from then on they
\* are always two neighbours of the Lexer's sequence of results with the Lexer
\* standing right behind the second, and a step that advances moves
\* peek_token into curr_token (or, advancing twice, the token pulled first).
C17_LockStep ==
    /\ [](LET st == LexerStream(input, 0, CharsNth(input, 0), Len(input) + 2)
          IN  /\ pc = "new" => (curr_token = NoToken /\ peek_token = NoToken)
              /\ pc # "new" =>
                    \E k \in 2..Len(st) :
                        /\ curr_token = st[k - 1].token
                        /\ peek_token = st[k].token
                        /\ read_position = st[k].read_position
                        /\ ch = st[k].ch)
    /\ [][(pc = "new" /\ pc' # "new") =>
              LET st == LexerStream(input, 0, CharsNth(input, 0), 2)
              IN  curr_token' = st[1].token /\ peek_token' = st[2].token]_vars
    /\ [][(pc # "new" /\ Advanced) =>
              \/ /\ curr_token' = peek_token
                 /\ peek_token' = LexerNext(input, read_position, ch).token
              \/ /\ curr_token' = LexerNext(input, read_position, ch).token
                 /\ peek_token' =
                        LexerStream(input, read_position, ch, 2)[2].token]_vars

\* in `let x = 5;` the parser stands on `=` with 5 as lookahead
C17_Witness ==
    /\ input = LetText(<<"x">>, <<"5">>)
    /\ pc = "let_loop"
    /\ curr_token = Tok("Assign")
    /\ peek_token = Literal(<<"5">>)

\* C19: a step of parse_program leaves the statements as they are or appends
\* one statement behind them; the statements of two statements in a row are
\* in the order of the source.
C19_AppendOnly ==
    /\ [][\/ prog'.statements = prog.statements
          \/ /\ Len(prog'.statements) = Len(prog.statements) + 1
             /\ SubSeq(prog'.statements, 1, Len(prog.statements))
                    = prog.statements]_vars
    /\ [](pc = "done" =>
            \A n \in Names, e \in PlainExprs, m \in Names :
                /\ input = LetText(n, e) \o IdentText(m) =>
                      /\ Len(prog.statements) = 2
                      /\ IsLetOf(prog.statements[1], n)
                      /\ prog.statements[2][1] = "Expression"
                /\ input = IdentText(m) \o LetText(n, e) =>
                      /\ Len(prog.statements) = 2
                      /\ prog.statements[1][1] = "Expression"
                      /\ IsLetOf(prog.statements[2], n))

\* `let x = 5;foo;` was parsed to the end
C19_Witness ==
    /\ pc = "done"
    /\ input = LetText(<<"x">>, <<"5">>) \o IdentText(<<"f", "o", "o">>)
    /\ Len(prog.statements) = 2

(***************************************************************************)
(* Properties of the read loop, checked under ReplSpec.                    *)
(***************************************************************************)
\* C18: a line that is read goes, trimmed, into a Lexer that starts at its
\* first character with nothing printed yet; when the loop goes round, what
\* was printed is the tokens of that line up to the Lexer's first None; and
\* at the end of standard input the loop stops.
C18_ReadLoop ==
    [][/\ (pc = "prompt" /\ pc' = "print" /\ stdin # <<>>) =>
              /\ input' = Trim(Head(stdin))
              /\ read_position' = 0
              /\ ch' = CharAt(input', 0)
              /\ out' = <<>>
       /\ (pc = "print" /\ pc' = "prompt") =>
              LET st == LexerStream(input, 0, CharAt(input, 0), Len(out) + 1)
              IN  /\ \A i \in 1..Len(out) : out[i] = st[i].token
                  /\ st[Len(out) + 1].token = NoToken
       /\ (pc = "prompt" /\ stdin = <<>>) => pc' = "returned"]_vars

====
